---- MODULE Spec2Model ----
(***************************************************************************)
(* A model of examples/whip-whep/main.go: the WHIP (publish) and WHEP       *)
(* (subscribe) HTTP handlers, the shared relay track videoTrack, the        *)
(* single-shot negotiation of writeAnswer and the background loops the      *)
(* handlers start.                                                          *)
(*                                                                          *)
(* Every HTTP request is one session.  net/http runs each handler in its    *)
(* own goroutine, so the handlers' steps interleave.  A panic inside a      *)
(* handler is recovered by net/http (the effect is isolated to the          *)
(* request); a panic in any other goroutine (the OnTrack callback and the   *)
(* goroutine it starts) terminates the process.                             *)
(*                                                                          *)
(* The pion PeerConnection and TrackLocalStaticRTP are not part of          *)
(* main.go; their behaviour follows the specification's description of      *)
(* the transport engine (section 6) and of the relay track (section 4.5).   *)
(***************************************************************************)
EXTENDS Integers, Sequences, FiniteSets, TLC

\* ---------------------------------------------------------------- bounds
MaxSessions == 3      \* HTTP requests served in one run
MaxPackets == 3       \* RTP packets read by all publishers in one run
NumCandidates == 1    \* local ICE candidates a session can reach
MaxInFlight == 1      \* requests whose handler has not returned yet
MaxSinkOps == 5       \* operations called on one media.Writer
LiveSessions == 2     \* requests served under fair scheduling

\* ------------------------------------------------------- program constants
StatusCreated == 201  \* http.StatusCreated

Sid == 1..MaxSessions

WhipPath == "/whip"
WhepPath == "/whep"

\* http.HandleFunc: the path each handler is mounted on.
EndpointPath(r) == IF r = "whip" THEN WhipPath ELSE WhepPath

\* Offer bodies: the empty string and one well-formed description.
EmptyOffer == ""
GoodOffer == "v=0 offer"
Offers == {EmptyOffer, GoodOffer}

\* The parse SetRemoteDescription performs on the offer body.
WellFormed(o) == o = GoodOffer

ICEStates == {"new", "checking", "connected", "disconnected", "failed", "closed"}

NoDesc == [set |-> FALSE, cands |-> 0]
NoPkt == 0

VARIABLES
  alive,        \* the process is running (no unrecovered panic yet)
  nsess,        \* number of requests accepted so far
  role,         \* role[s]: "" | "whip" | "whep", the handler serving s
  path,         \* path[s]: the path the handler passes to writeAnswer
  offer,        \* offer[s]: the request body
  pc,           \* pc[s]: position of the handler goroutine of s
  remote,       \* remote[s]: TRUE once SetRemoteDescription succeeded
  answer,       \* answer[s]: TRUE once CreateAnswer succeeded
  local,        \* local[s]: the local description (with its candidates)
  gather,       \* gather[s]: "new" | "gathering" | "complete"
  ice,          \* ice[s]: ICE connection state
  conn,         \* conn[s]: "none" | "open" | "closed", the PeerConnection
  resp,         \* resp[s]: the HTTP response written so far
  rtpLoop,      \* rtpLoop[s]: the OnTrack read loop of publisher s
  rtcpLoop,     \* rtcpLoop[s]: the feedback drain goroutine of s
  pkt,          \* pkt[s]: the packet held by the read loop of s
  consumers,    \* videoTrack: the registered consumers
  nread,        \* packets read so far by all publishers (packet ids)
  readBy,       \* readBy[i]: the publisher whose loop read packet i
  written,      \* the WriteRTP calls on videoTrack, in order
  delivered,    \* delivered[s]: packets handed to subscriber s, in order
  regAt,        \* regAt[s]: Len(written) when s called AddTrack, else -1
  deregAt,      \* deregAt[s]: Len(written) when s left the track, else -1
  calls,        \* calls[s]: how often s called each PeerConnection / response method
  sinkOpen,     \* a media.Writer: it has not been closed
  sinkData,     \* a media.Writer: the packets it accepted, in order
  sinkReleased, \* a media.Writer: how often its resources were released
  sinkLast,     \* a media.Writer: the last operation called on it
  sinkRes,      \* a media.Writer: what the last operation returned
  sinkOps       \* a media.Writer: operations called so far

vars == <<alive, nsess, role, path, offer, pc, remote, answer, local, gather, ice,
          conn, resp, rtpLoop, rtcpLoop, pkt, consumers, nread, readBy,
          written, delivered, regAt, deregAt, calls,
          sinkOpen, sinkData, sinkReleased, sinkLast, sinkRes, sinkOps>>

sessVars == <<nsess, role, path, offer>>
mediaVars == <<rtpLoop, rtcpLoop, pkt, nread, readBy, written, delivered>>
trackVars == <<consumers, regAt, deregAt>>
sinkVars == <<sinkOpen, sinkData, sinkReleased, sinkLast, sinkRes, sinkOps>>
mainVars == <<alive, nsess, role, path, offer, pc, remote, answer, local, gather,
              ice, conn, resp, rtpLoop, rtcpLoop, pkt, consumers, nread, readBy,
              written, delivered, regAt, deregAt, calls>>

NoCalls == [setRemote |-> 0, setLocal |-> 0, close |-> 0, writeHeader |-> 0]

NoResp == [location |-> "", status |-> 0, body |-> NoDesc, sent |-> FALSE]

\* var videoTrack / main(): the state once the server listens.
Init ==
  /\ alive = TRUE
  /\ nsess = 0
  /\ role = [s \in Sid |-> ""]
  /\ path = [s \in Sid |-> ""]
  /\ offer = [s \in Sid |-> EmptyOffer]
  /\ pc = [s \in Sid |-> "none"]
  /\ remote = [s \in Sid |-> FALSE]
  /\ answer = [s \in Sid |-> FALSE]
  /\ local = [s \in Sid |-> NoDesc]
  /\ gather = [s \in Sid |-> "new"]
  /\ ice = [s \in Sid |-> "new"]
  /\ conn = [s \in Sid |-> "none"]
  /\ resp = [s \in Sid |-> NoResp]
  /\ rtpLoop = [s \in Sid |-> "off"]
  /\ rtcpLoop = [s \in Sid |-> "off"]
  /\ pkt = [s \in Sid |-> NoPkt]
  /\ consumers = {}
  /\ nread = 0
  /\ readBy = <<>>
  /\ written = <<>>
  /\ delivered = [s \in Sid |-> <<>>]
  /\ regAt = [s \in Sid |-> -1]
  /\ deregAt = [s \in Sid |-> -1]
  /\ calls = [s \in Sid |-> NoCalls]
  /\ sinkOpen = TRUE
  /\ sinkData = <<>>
  /\ sinkReleased = 0
  /\ sinkLast = "none"
  /\ sinkRes = "ok"
  /\ sinkOps = 0


\* ------------------------------------------------ panics and process exit

\* panic(err) in a goroutine net/http does not guard: the Go runtime ends
\* the process.  The track and every session go with it.
Crash ==
  /\ alive' = FALSE
  /\ consumers' = {}

\* panic(err) inside an HTTP handler: net/http recovers it and aborts the
\* request; nothing the handler built is released.
HandlerPanic(s) == pc' = [pc EXCEPT ![s] = "panicked"]

\* ---------------------------------------------- the relay track (pion)

\* TrackLocalStaticRTP: AddTrack registers the session as a consumer.
RegisterConsumer(c, s) == c \cup {s}

\* TrackLocalStaticRTP: a closed session leaves the consumer set.
DeregisterConsumer(c, s) == c \ {s}

\* TrackLocalStaticRTP.WriteRTP: the packet reaches every registered
\* consumer but those in F, whose delivery fails.
FanOut(d, c, F, p) ==
  [t \in Sid |-> IF t \in c \ F THEN Append(d[t], p) ELSE d[t]]

\* ------------------------------------------------------------ handlers

\* The sessions whose handler goroutine is still running.
InFlight == {s \in Sid : pc[s] \notin {"none", "done", "panicked"}}

\* whipHandler, up to the call of writeAnswer: a fresh PeerConnection with
\* one receiving video transceiver and the OnTrack callback registered.
whipHandler(o) ==
  /\ alive
  /\ nsess < MaxSessions
  /\ Cardinality(InFlight) < MaxInFlight
  /\ LET s == nsess + 1 IN
       /\ nsess' = s
       /\ role' = [role EXCEPT ![s] = "whip"]
       /\ path' = [path EXCEPT ![s] = WhipPath]
       /\ offer' = [offer EXCEPT ![s] = o]
       /\ conn' = [conn EXCEPT ![s] = "open"]
       /\ pc' = [pc EXCEPT ![s] = "setRemote"]
  /\ UNCHANGED <<alive, remote, answer, local, gather, ice, resp>>
  /\ UNCHANGED <<mediaVars, trackVars>>
  /\ UNCHANGED <<calls, sinkVars>>

\* Mutant: whepHandler passes the publisher's path to writeAnswer.
whepHandler_WhipPath(o) ==
  /\ alive
  /\ nsess < MaxSessions
  /\ Cardinality(InFlight) < MaxInFlight
  /\ LET s == nsess + 1 IN
       /\ nsess' = s
       /\ role' = [role EXCEPT ![s] = "whep"]
       /\ path' = [path EXCEPT ![s] = WhipPath]
       /\ offer' = [offer EXCEPT ![s] = o]
       /\ conn' = [conn EXCEPT ![s] = "open"]
       /\ pc' = [pc EXCEPT ![s] = "setRemote"]
       /\ consumers' = RegisterConsumer(consumers, s)
       /\ regAt' = [regAt EXCEPT ![s] = Len(written)]
       /\ rtcpLoop' = [rtcpLoop EXCEPT ![s] = "running"]
  /\ UNCHANGED <<alive, remote, answer, local, gather, ice, resp>>
  /\ UNCHANGED <<rtpLoop, pkt, nread, readBy, written, delivered, deregAt>>
  /\ UNCHANGED <<calls, sinkVars>>

\* Mutant: the new subscriber is handed the packets written so far.
whepHandler_Replay(o) ==
  /\ alive
  /\ nsess < MaxSessions
  /\ Cardinality(InFlight) < MaxInFlight
  /\ LET s == nsess + 1 IN
       /\ nsess' = s
       /\ role' = [role EXCEPT ![s] = "whep"]
       /\ path' = [path EXCEPT ![s] = WhepPath]
       /\ offer' = [offer EXCEPT ![s] = o]
       /\ conn' = [conn EXCEPT ![s] = "open"]
       /\ pc' = [pc EXCEPT ![s] = "setRemote"]
       /\ consumers' = RegisterConsumer(consumers, s)
       /\ regAt' = [regAt EXCEPT ![s] = Len(written)]
       /\ rtcpLoop' = [rtcpLoop EXCEPT ![s] = "running"]
       /\ delivered' = [delivered EXCEPT ![s] =
                          [i \in 1..Len(written) |-> written[i].pkt]]
  /\ UNCHANGED <<alive, remote, answer, local, gather, ice, resp>>
  /\ UNCHANGED <<rtpLoop, pkt, nread, readBy, written, deregAt>>
  /\ UNCHANGED <<calls, sinkVars>>

\* whepHandler, up to the call of writeAnswer: a fresh PeerConnection,
\* AddTrack(videoTrack) and the goroutine draining rtpSender.Read.
whepHandler(o) ==
  /\ alive
  /\ nsess < MaxSessions
  /\ Cardinality(InFlight) < MaxInFlight
  /\ LET s == nsess + 1 IN
       /\ nsess' = s
       /\ role' = [role EXCEPT ![s] = "whep"]
       /\ path' = [path EXCEPT ![s] = WhepPath]
       /\ offer' = [offer EXCEPT ![s] = o]
       /\ conn' = [conn EXCEPT ![s] = "open"]
       /\ pc' = [pc EXCEPT ![s] = "setRemote"]
       /\ consumers' = RegisterConsumer(consumers, s)
       /\ regAt' = [regAt EXCEPT ![s] = Len(written)]
       /\ rtcpLoop' = [rtcpLoop EXCEPT ![s] = "running"]
  /\ UNCHANGED <<alive, remote, answer, local, gather, ice, resp>>
  /\ UNCHANGED <<rtpLoop, pkt, nread, readBy, written, delivered, deregAt>>
  /\ UNCHANGED <<calls, sinkVars>>

\* ----------------------------------------------------------- writeAnswer

\* Mutant: the error of SetRemoteDescription is dropped and writeAnswer
\* goes on.
SetRemoteDescription_IgnoreError(s) ==
  /\ alive
  /\ pc[s] = "setRemote"
  /\ calls' = [calls EXCEPT ![s].setRemote = @ + 1]
  /\ remote' = [remote EXCEPT ![s] = WellFormed(offer[s])]
  /\ pc' = [pc EXCEPT ![s] = "createAnswer"]
  /\ UNCHANGED <<alive, sessVars, answer, local, gather, ice, conn, resp>>
  /\ UNCHANGED <<mediaVars, trackVars>>
  /\ UNCHANGED sinkVars

\* Mutant: a failed SetRemoteDescription is tried again.
SetRemoteDescription_Retry(s) ==
  /\ alive
  /\ pc[s] = "setRemote"
  /\ calls' = [calls EXCEPT ![s].setRemote = @ + 1]
  /\ IF WellFormed(offer[s])
       THEN /\ remote' = [remote EXCEPT ![s] = TRUE]
            /\ pc' = [pc EXCEPT ![s] = "createAnswer"]
       ELSE UNCHANGED <<remote, pc>>
  /\ UNCHANGED <<alive, sessVars, answer, local, gather, ice, conn, resp>>
  /\ UNCHANGED <<mediaVars, trackVars>>
  /\ UNCHANGED sinkVars

\* writeAnswer: OnICEConnectionStateChange is registered, then
\* SetRemoteDescription parses the offer; an error panics.
SetRemoteDescription(s) ==
  /\ alive
  /\ pc[s] = "setRemote"
  /\ calls' = [calls EXCEPT ![s].setRemote = @ + 1]
  /\ IF WellFormed(offer[s])
       THEN /\ remote' = [remote EXCEPT ![s] = TRUE]
            /\ pc' = [pc EXCEPT ![s] = "createAnswer"]
       ELSE /\ HandlerPanic(s)
            /\ UNCHANGED remote
  /\ UNCHANGED <<alive, sessVars, answer, local, gather, ice, conn, resp>>
  /\ UNCHANGED <<mediaVars, trackVars>>
  /\ UNCHANGED sinkVars

\* Mutant: writeAnswer ignores the error of CreateAnswer and goes on.
CreateAnswer_IgnoreError(s, ok) ==
  /\ alive
  /\ pc[s] = "createAnswer"
  /\ answer' = [answer EXCEPT ![s] = ok]
  /\ pc' = [pc EXCEPT ![s] = "setLocal"]
  /\ UNCHANGED <<alive, sessVars, remote, local, gather, ice, conn, resp>>
  /\ UNCHANGED <<mediaVars, trackVars>>
  /\ UNCHANGED <<calls, sinkVars>>

\* writeAnswer: GatheringCompletePromise, then CreateAnswer; an error panics.
CreateAnswer(s, ok) ==
  /\ alive
  /\ pc[s] = "createAnswer"
  /\ IF ok
       THEN /\ answer' = [answer EXCEPT ![s] = TRUE]
            /\ pc' = [pc EXCEPT ![s] = "setLocal"]
       ELSE /\ HandlerPanic(s)
            /\ UNCHANGED answer
  /\ UNCHANGED <<alive, sessVars, remote, local, gather, ice, conn, resp>>
  /\ UNCHANGED <<mediaVars, trackVars>>
  /\ UNCHANGED <<calls, sinkVars>>

\* writeAnswer: SetLocalDescription(answer) starts candidate gathering; an
\* error panics.
SetLocalDescription(s, ok) ==
  /\ alive
  /\ pc[s] = "setLocal"
  /\ calls' = [calls EXCEPT ![s].setLocal = @ + 1]
  /\ IF ok
       THEN /\ local' = [local EXCEPT ![s] = [set |-> TRUE, cands |-> 0]]
            /\ gather' = [gather EXCEPT ![s] = "gathering"]
            /\ pc' = [pc EXCEPT ![s] = "waitGather"]
       ELSE /\ HandlerPanic(s)
            /\ UNCHANGED <<local, gather>>
  /\ UNCHANGED <<alive, sessVars, remote, answer, ice, conn, resp>>
  /\ UNCHANGED <<mediaVars, trackVars>>
  /\ UNCHANGED sinkVars

\* The ICE gatherer finds one more candidate; it is added to the local
\* description.
GatherCandidate(s) ==
  /\ alive
  /\ gather[s] = "gathering"
  /\ local[s].cands < NumCandidates
  /\ local' = [local EXCEPT ![s].cands = @ + 1]
  /\ UNCHANGED <<alive, sessVars, pc, remote, answer, gather, ice, conn, resp>>
  /\ UNCHANGED <<mediaVars, trackVars>>
  /\ UNCHANGED <<calls, sinkVars>>

\* The ICE gatherer has found every candidate and reports completion: the
\* promise's channel is closed.
GatherComplete(s) ==
  /\ alive
  /\ gather[s] = "gathering"
  /\ local[s].cands = NumCandidates
  /\ gather' = [gather EXCEPT ![s] = "complete"]
  /\ UNCHANGED <<alive, sessVars, pc, remote, answer, local, ice, conn, resp>>
  /\ UNCHANGED <<mediaVars, trackVars>>
  /\ UNCHANGED <<calls, sinkVars>>

\* Mutant: the wait on gatherComplete is left out.
AwaitGatherComplete_NoWait(s) ==
  /\ alive
  /\ pc[s] = "waitGather"
  /\ pc' = [pc EXCEPT ![s] = "addLocation"]
  /\ UNCHANGED <<alive, sessVars, remote, answer, local, gather, ice, conn, resp>>
  /\ UNCHANGED <<mediaVars, trackVars>>
  /\ UNCHANGED <<calls, sinkVars>>

\* writeAnswer: <-gatherComplete blocks until gathering is complete.
AwaitGatherComplete(s) ==
  /\ alive
  /\ pc[s] = "waitGather"
  /\ gather[s] = "complete"
  /\ pc' = [pc EXCEPT ![s] = "addLocation"]
  /\ UNCHANGED <<alive, sessVars, remote, answer, local, gather, ice, conn, resp>>
  /\ UNCHANGED <<mediaVars, trackVars>>
  /\ UNCHANGED <<calls, sinkVars>>

\* writeAnswer: res.Header().Add("Location", path).  Headers changed after
\* the status line went out do not reach the client.
AddLocationHeader(s) ==
  /\ alive
  /\ pc[s] = "addLocation"
  /\ resp' = [resp EXCEPT ![s].location =
                IF resp[s].status = 0 THEN path[s] ELSE @]
  /\ pc' = [pc EXCEPT ![s] = "writeHeader"]
  /\ UNCHANGED <<alive, sessVars, remote, answer, local, gather, ice, conn>>
  /\ UNCHANGED <<mediaVars, trackVars>>
  /\ UNCHANGED <<calls, sinkVars>>

\* writeAnswer: res.WriteHeader(http.StatusCreated); only the first status
\* written counts.
WriteHeader(s) ==
  /\ alive
  /\ pc[s] = "writeHeader"
  /\ calls' = [calls EXCEPT ![s].writeHeader = @ + 1]
  /\ resp' = [resp EXCEPT ![s].status =
                IF @ = 0 THEN StatusCreated ELSE @]
  /\ pc' = [pc EXCEPT ![s] = "writeBody"]
  /\ UNCHANGED <<alive, sessVars, remote, answer, local, gather, ice, conn>>
  /\ UNCHANGED <<mediaVars, trackVars>>
  /\ UNCHANGED sinkVars

\* writeAnswer: fmt.Fprint(res, peerConnection.LocalDescription().SDP), and
\* the handler returns.
WriteBody(s) ==
  /\ alive
  /\ pc[s] = "writeBody"
  /\ resp' = [resp EXCEPT ![s].body = local[s], ![s].sent = TRUE]
  /\ pc' = [pc EXCEPT ![s] = "done"]
  /\ UNCHANGED <<alive, sessVars, remote, answer, local, gather, ice, conn>>
  /\ UNCHANGED <<mediaVars, trackVars>>
  /\ UNCHANGED <<calls, sinkVars>>

\* --------------------------------------------- connectivity and teardown

\* The ICE connection states the agent can move to from state st.  "closed"
\* is entered only once the PeerConnection was closed, and "connected" only
\* once the remote peer holds the answer (it carries the ICE credentials).
ICESuccessors(st) ==
  CASE st = "new" -> {"checking"}
    [] st = "checking" -> {"connected", "failed"}
    [] st = "connected" -> {"disconnected"}
    [] st = "disconnected" -> {"connected", "failed"}
    [] OTHER -> {}

\* PeerConnection.Close: the connection is closed for good and its sender
\* leaves the relay track.
Close(s) ==
  /\ calls' = [calls EXCEPT ![s].close = @ + 1]
  /\ conn' = [conn EXCEPT ![s] = "closed"]
  /\ consumers' = DeregisterConsumer(consumers, s)
  /\ deregAt' = [deregAt EXCEPT ![s] =
                   IF s \in consumers THEN Len(written) ELSE @]

\* Mutant: the callback logs the state and never closes the connection.
OnICEConnectionStateChange_NoClose(s, st) ==
  /\ alive
  /\ local[s].set
  /\ \/ /\ conn[s] = "open"
        /\ st \in ICESuccessors(ice[s])
        /\ st = "connected" => resp[s].sent
     \/ conn[s] = "closed" /\ st = "closed" /\ ice[s] # "closed"
  /\ ice' = [ice EXCEPT ![s] = st]
  /\ UNCHANGED <<conn, consumers, deregAt, calls>>
  /\ UNCHANGED <<alive, sessVars, pc, remote, answer, local, gather, resp>>
  /\ UNCHANGED <<mediaVars, regAt>>
  /\ UNCHANGED sinkVars

\* Mutant: the callback closes the connection on "disconnected" as well.
OnICEConnectionStateChange_CloseOnDisconnected(s, st) ==
  /\ alive
  /\ local[s].set
  /\ \/ /\ conn[s] = "open"
        /\ st \in ICESuccessors(ice[s])
        /\ st = "connected" => resp[s].sent
     \/ conn[s] = "closed" /\ st = "closed" /\ ice[s] # "closed"
  /\ ice' = [ice EXCEPT ![s] = st]
  /\ IF st \in {"failed", "disconnected"}
       THEN Close(s)
       ELSE UNCHANGED <<conn, consumers, deregAt, calls>>
  /\ UNCHANGED <<alive, sessVars, pc, remote, answer, local, gather, resp>>
  /\ UNCHANGED <<mediaVars, regAt>>
  /\ UNCHANGED sinkVars

\* The callback writeAnswer gives OnICEConnectionStateChange, run on the
\* change of session s to state st: only "failed" closes the connection.
OnICEConnectionStateChange(s, st) ==
  /\ alive
  /\ local[s].set
  /\ \/ /\ conn[s] = "open"
        /\ st \in ICESuccessors(ice[s])
        /\ st = "connected" => resp[s].sent
     \/ conn[s] = "closed" /\ st = "closed" /\ ice[s] # "closed"
  /\ ice' = [ice EXCEPT ![s] = st]
  /\ IF st = "failed"
       THEN Close(s)
       ELSE UNCHANGED <<conn, consumers, deregAt, calls>>
  /\ UNCHANGED <<alive, sessVars, pc, remote, answer, local, gather, resp>>
  /\ UNCHANGED <<mediaVars, regAt>>
  /\ UNCHANGED sinkVars

\* ------------------------------------------------- the publisher's loops

\* The OnTrack callback of whipHandler starts: the remote track arrived.  It
\* spawns the ReadRTCP goroutine and enters the ReadRTP loop.
OnTrack(s) ==
  /\ alive
  /\ role[s] = "whip"
  /\ ice[s] = "connected"
  /\ conn[s] = "open"
  /\ rtpLoop[s] = "off"
  /\ rtpLoop' = [rtpLoop EXCEPT ![s] = "read"]
  /\ rtcpLoop' = [rtcpLoop EXCEPT ![s] = "running"]
  /\ UNCHANGED <<alive, sessVars, pc, remote, answer, local, gather, ice, conn, resp>>
  /\ UNCHANGED <<pkt, nread, readBy, written, delivered, trackVars>>
  /\ UNCHANGED <<calls, sinkVars>>

\* OnTrack loop: track.ReadRTP() returns the next packet of the publisher.
ReadRTP(s) ==
  /\ alive
  /\ rtpLoop[s] = "read"
  /\ conn[s] = "open"
  /\ nread < MaxPackets
  /\ nread' = nread + 1
  /\ readBy' = Append(readBy, s)
  /\ pkt' = [pkt EXCEPT ![s] = nread + 1]
  /\ rtpLoop' = [rtpLoop EXCEPT ![s] = "write"]
  /\ UNCHANGED <<alive, sessVars, pc, remote, answer, local, gather, ice, conn, resp>>
  /\ UNCHANGED <<rtcpLoop, written, delivered, trackVars>>
  /\ UNCHANGED <<calls, sinkVars>>

\* OnTrack loop: track.ReadRTP() on a closed connection returns an error,
\* and the loop panics.
ReadRTPError(s) ==
  /\ alive
  /\ rtpLoop[s] = "read"
  /\ conn[s] = "closed"
  /\ Crash
  /\ UNCHANGED <<sessVars, pc, remote, answer, local, gather, ice, conn, resp>>
  /\ UNCHANGED <<mediaVars, regAt, deregAt>>
  /\ UNCHANGED <<calls, sinkVars>>

\* Mutant: the loop forwards every packet twice.
WriteRTP_Twice(s, F) ==
  /\ alive
  /\ rtpLoop[s] = "write"
  /\ F \subseteq consumers
  /\ written' = Append(written, [pkt |-> pkt[s], to |-> consumers, failed |-> F])
  /\ delivered' = FanOut(FanOut(delivered, consumers, F, pkt[s]),
                         consumers, F, pkt[s])
  /\ IF F = {}
       THEN /\ rtpLoop' = [rtpLoop EXCEPT ![s] = "read"]
            /\ pkt' = [pkt EXCEPT ![s] = NoPkt]
            /\ UNCHANGED <<alive, consumers>>
       ELSE /\ Crash
            /\ UNCHANGED <<rtpLoop, pkt>>
  /\ UNCHANGED <<sessVars, pc, remote, answer, local, gather, ice, conn, resp>>
  /\ UNCHANGED <<rtcpLoop, nread, readBy, regAt, deregAt>>
  /\ UNCHANGED <<calls, sinkVars>>

\* Mutant: the loop writes to a track of its own (a shadowed videoTrack),
\* which has no consumer.
WriteRTP_ShadowedTrack(s, F) ==
  /\ alive
  /\ rtpLoop[s] = "write"
  /\ F = {}
  /\ written' = Append(written, [pkt |-> pkt[s], to |-> consumers, failed |-> F])
  /\ rtpLoop' = [rtpLoop EXCEPT ![s] = "read"]
  /\ pkt' = [pkt EXCEPT ![s] = NoPkt]
  /\ UNCHANGED <<alive, consumers, delivered>>
  /\ UNCHANGED <<sessVars, pc, remote, answer, local, gather, ice, conn, resp>>
  /\ UNCHANGED <<rtcpLoop, nread, readBy, regAt, deregAt>>
  /\ UNCHANGED <<calls, sinkVars>>

\* OnTrack loop: videoTrack.WriteRTP(pkt).  The deliveries to the consumers
\* in F fail; if any fails WriteRTP returns an error and the loop panics.
WriteRTP(s, F) ==
  /\ alive
  /\ rtpLoop[s] = "write"
  /\ F \subseteq consumers
  /\ written' = Append(written, [pkt |-> pkt[s], to |-> consumers, failed |-> F])
  /\ delivered' = FanOut(delivered, consumers, F, pkt[s])
  /\ IF F = {}
       THEN /\ rtpLoop' = [rtpLoop EXCEPT ![s] = "read"]
            /\ pkt' = [pkt EXCEPT ![s] = NoPkt]
            /\ UNCHANGED <<alive, consumers>>
       ELSE /\ Crash
            /\ UNCHANGED <<rtpLoop, pkt>>
  /\ UNCHANGED <<sessVars, pc, remote, answer, local, gather, ice, conn, resp>>
  /\ UNCHANGED <<rtcpLoop, nread, readBy, regAt, deregAt>>
  /\ UNCHANGED <<calls, sinkVars>>

\* OnTrack goroutine: receiver.ReadRTCP() on a closed connection returns an
\* error, and the goroutine panics.
ReadRTCPError(s) ==
  /\ alive
  /\ role[s] = "whip"
  /\ rtcpLoop[s] = "running"
  /\ conn[s] = "closed"
  /\ Crash
  /\ UNCHANGED <<sessVars, pc, remote, answer, local, gather, ice, conn, resp>>
  /\ UNCHANGED <<mediaVars, regAt, deregAt>>
  /\ UNCHANGED <<calls, sinkVars>>

\* Mutant: the subscriber's goroutine panics on the read error, as the
\* publisher's goroutines do.
SenderReadError_Panic(s) ==
  /\ alive
  /\ role[s] = "whep"
  /\ rtcpLoop[s] = "running"
  /\ conn[s] = "closed"
  /\ Crash
  /\ UNCHANGED <<sessVars, pc, remote, answer, local, gather, ice, conn, resp>>
  /\ UNCHANGED <<mediaVars, regAt, deregAt>>
  /\ UNCHANGED <<calls, sinkVars>>

\* Mutant: the subscriber's goroutine ignores the read error and reads on.
SenderReadError_Ignore(s) ==
  /\ alive
  /\ role[s] = "whep"
  /\ rtcpLoop[s] = "running"
  /\ conn[s] = "closed"
  /\ UNCHANGED vars

\* whepHandler goroutine: rtpSender.Read on a closed connection returns an
\* error, and the goroutine returns.
SenderReadError(s) ==
  /\ alive
  /\ role[s] = "whep"
  /\ rtcpLoop[s] = "running"
  /\ conn[s] = "closed"
  /\ rtcpLoop' = [rtcpLoop EXCEPT ![s] = "exited"]
  /\ UNCHANGED <<alive, sessVars, pc, remote, answer, local, gather, ice, conn, resp>>
  /\ UNCHANGED <<rtpLoop, pkt, nread, readBy, written, delivered, trackVars>>
  /\ UNCHANGED <<calls, sinkVars>>

\* ------------------------------------------------ the packet sink (media)

\* Writer.WriteRTP: an open sink accepts the packet whole; a closed sink
\* rejects it.
SinkWriteRTP(p) ==
  /\ sinkOps < MaxSinkOps
  /\ sinkOps' = sinkOps + 1
  /\ sinkLast' = "WriteRTP"
  /\ IF sinkOpen
       THEN /\ sinkData' = Append(sinkData, p)
            /\ sinkRes' = "ok"
       ELSE /\ sinkRes' = "SinkClosed"
            /\ UNCHANGED sinkData
  /\ UNCHANGED <<sinkOpen, sinkReleased>>
  /\ UNCHANGED mainVars

\* Mutant: every Close releases the resources and a second one reports the
\* sink as closed already.
SinkClose_NotIdempotent(ok) ==
  /\ sinkOps < MaxSinkOps
  /\ sinkOps' = sinkOps + 1
  /\ sinkLast' = "Close"
  /\ IF sinkOpen
       THEN IF ok
              THEN /\ sinkOpen' = FALSE
                   /\ sinkReleased' = sinkReleased + 1
                   /\ sinkRes' = "ok"
              ELSE /\ sinkRes' = "error"
                   /\ UNCHANGED <<sinkOpen, sinkReleased>>
       ELSE /\ sinkReleased' = sinkReleased + 1
            /\ sinkRes' = "SinkClosed"
            /\ UNCHANGED sinkOpen
  /\ UNCHANGED sinkData
  /\ UNCHANGED mainVars

\* Writer.Close: the first Close that succeeds releases the resources; a
\* Close of a closed sink changes nothing and returns success.  The Close
\* of an open sink may fail (ok = FALSE) and leave it open.
SinkClose(ok) ==
  /\ sinkOps < MaxSinkOps
  /\ sinkOps' = sinkOps + 1
  /\ sinkLast' = "Close"
  /\ IF sinkOpen
       THEN IF ok
              THEN /\ sinkOpen' = FALSE
                   /\ sinkReleased' = sinkReleased + 1
                   /\ sinkRes' = "ok"
              ELSE /\ sinkRes' = "error"
                   /\ UNCHANGED <<sinkOpen, sinkReleased>>
       ELSE /\ sinkRes' = "ok"
            /\ UNCHANGED <<sinkOpen, sinkReleased>>
  /\ UNCHANGED sinkData
  /\ UNCHANGED mainVars

\* Any sequence of operations on one sink.
SinkNext ==
  \/ \E p \in 1..MaxPackets : SinkWriteRTP(p)
  \/ \E ok \in BOOLEAN : SinkClose(ok)

SinkSpec == Init /\ [][SinkNext]_vars

\* ------------------------------------------------------ the specification

Next ==
  \/ \E o \in Offers : whipHandler(o)
  \/ \E o \in Offers : whepHandler(o)
  \/ \E s \in Sid : SetRemoteDescription(s)
  \/ \E s \in Sid, ok \in BOOLEAN : CreateAnswer(s, ok)
  \/ \E s \in Sid, ok \in BOOLEAN : SetLocalDescription(s, ok)
  \/ \E s \in Sid : GatherCandidate(s)
  \/ \E s \in Sid : GatherComplete(s)
  \/ \E s \in Sid : AwaitGatherComplete(s)
  \/ \E s \in Sid : AddLocationHeader(s)
  \/ \E s \in Sid : WriteHeader(s)
  \/ \E s \in Sid : WriteBody(s)
  \/ \E s \in Sid, st \in ICEStates : OnICEConnectionStateChange(s, st)
  \/ \E s \in Sid : OnTrack(s)
  \/ \E s \in Sid : ReadRTP(s)
  \/ \E s \in Sid : ReadRTPError(s)
  \/ \E s \in Sid, F \in SUBSET Sid : WriteRTP(s, F)
  \/ \E s \in Sid : ReadRTCPError(s)
  \/ \E s \in Sid : SenderReadError(s)

Spec == Init /\ [][Next]_vars

\* ------------------------------------------- the server under fair scheduling

\* The server with at most LiveSessions requests, for the properties of
\* progress.
FairNext ==
  \/ \E o \in Offers : nsess < LiveSessions /\ whipHandler(o)
  \/ \E o \in Offers : nsess < LiveSessions /\ whepHandler(o)
  \/ \E s \in Sid : SetRemoteDescription(s)
  \/ \E s \in Sid, ok \in BOOLEAN : CreateAnswer(s, ok)
  \/ \E s \in Sid, ok \in BOOLEAN : SetLocalDescription(s, ok)
  \/ \E s \in Sid : GatherCandidate(s)
  \/ \E s \in Sid : GatherComplete(s)
  \/ \E s \in Sid : AwaitGatherComplete(s)
  \/ \E s \in Sid : AddLocationHeader(s)
  \/ \E s \in Sid : WriteHeader(s)
  \/ \E s \in Sid : WriteBody(s)
  \/ \E s \in Sid, st \in ICEStates : OnICEConnectionStateChange(s, st)
  \/ \E s \in Sid : OnTrack(s)
  \/ \E s \in Sid : ReadRTP(s)
  \/ \E s \in Sid : ReadRTPError(s)
  \/ \E s \in Sid, F \in SUBSET Sid : WriteRTP(s, F)
  \/ \E s \in Sid : ReadRTCPError(s)
  \/ \E s \in Sid : SenderReadError(s)

\* The Go scheduler runs every runnable goroutine: a handler that is not
\* blocked takes its next step, a read on a closed connection returns its
\* error, a packet read is written.  Gathering, once started, completes.
\* Requests, the ICE state changes, the arrival of the remote track and of
\* its packets are the environment's and are not forced.
Fairness ==
  \A s \in 1..LiveSessions :
    /\ WF_vars(SetRemoteDescription(s))
    /\ WF_vars(\E ok \in BOOLEAN : CreateAnswer(s, ok))
    /\ WF_vars(\E ok \in BOOLEAN : SetLocalDescription(s, ok))
    /\ WF_vars(GatherCandidate(s))
    /\ WF_vars(GatherComplete(s))
    /\ WF_vars(AwaitGatherComplete(s))
    /\ WF_vars(AddLocationHeader(s))
    /\ WF_vars(WriteHeader(s))
    /\ WF_vars(WriteBody(s))
    /\ WF_vars(ReadRTPError(s))
    /\ WF_vars(\E F \in SUBSET Sid : WriteRTP(s, F))
    /\ WF_vars(ReadRTCPError(s))
    /\ WF_vars(SenderReadError(s))

FairSpec == Init /\ [][FairNext]_vars /\ Fairness

\* ------------------------------------------------------------ properties

\* Some part of the HTTP response of s has been written.
Responded(s) ==
  resp[s].sent \/ resp[s].status # 0 \/ resp[s].location # ""

\* C1: no part of a session's response (header, status or body) is written
\* while that session's candidate gathering is in progress or not started.
C1_AnswerAfterGathering ==
  \A s \in Sid : Responded(s) => gather[s] = "complete"

\* A publisher and a subscriber have both been answered in full.
C1_Witness ==
  \E p, s \in Sid :
    /\ role[p] = "whip" /\ resp[p].sent /\ gather[p] = "complete"
    /\ role[s] = "whep" /\ resp[s].sent /\ gather[s] = "complete"

\* C9: a response whose body is written has status 201, the Location header
\* of the endpoint that was called, and as body the session's local
\* description with every candidate gathered; the status is never written
\* before the Location header.
C9_ResponseShape ==
  \A s \in Sid :
    /\ resp[s].sent =>
         /\ resp[s].status = StatusCreated
         /\ resp[s].location = EndpointPath(role[s])
         /\ resp[s].body = local[s]
         /\ local[s] = [set |-> TRUE, cands |-> NumCandidates]
    /\ resp[s].status # 0 => resp[s].location = EndpointPath(role[s])

\* Both endpoints have answered, each with its own Location.
C9_Witness ==
  \E p, s \in Sid :
    /\ role[p] = "whip" /\ resp[p].sent /\ resp[p].location = WhipPath
    /\ role[s] = "whep" /\ resp[s].sent /\ resp[s].location = WhepPath
    /\ resp[s].body.cands = NumCandidates

\* C10: a session holds an answer, or has it as local description, only if
\* its remote description was set before.
C10_AnswerAfterRemote ==
  \A s \in Sid :
    /\ answer[s] => remote[s]
    /\ local[s].set => answer[s] /\ remote[s]

\* A session created its answer and set it as local description.
C10_Witness ==
  \E s \in Sid : answer[s] /\ local[s].set /\ remote[s]

\* The publishers whose OnTrack loop forwards packets into videoTrack.
Forwarding ==
  {p \in Sid : role[p] = "whip" /\ conn[p] = "open"
               /\ rtpLoop[p] \in {"read", "write"}}

\* C2: at most one publisher session at a time forwards packets into the
\* relay track (a second publish attempt is rejected while one is active).
C2_SinglePublisher ==
  alive => Cardinality(Forwarding) <= 1

\* What session t holds: its negotiation, connection and loops.
SessionState(t) ==
  <<pc[t], remote[t], answer[t], local[t], gather[t], ice[t], conn[t],
    resp[t], rtpLoop[t], rtcpLoop[t], pkt[t]>>

\* A post-negotiation error of session s happens in this step: its
\* connectivity fails, one of its reads fails, or its forwarding fails.
ErrorStep(s) ==
  \/ OnICEConnectionStateChange(s, "failed")
  \/ ReadRTPError(s)
  \/ ReadRTCPError(s)
  \/ SenderReadError(s)
  \/ \E F \in (SUBSET Sid) \ {{}} : WriteRTP(s, F)

\* C3: a post-negotiation error of a session leaves the process running,
\* every other session as it was and every other consumer registered.
C3_ErrorsStayLocal ==
  [][\A s \in Sid :
       ErrorStep(s) =>
         /\ alive'
         /\ \A t \in Sid \ {s} : SessionState(t)' = SessionState(t)
         /\ consumers' \ {s} = consumers \ {s}]_vars

\* A session exists for request s: its PeerConnection was created and has
\* not been closed.
SessionExists(s) == conn[s] = "open"

\* C4: after a POST /whip with a malformed offer failed at
\* SetRemoteDescription, no session exists for the request and the relay
\* track has no consumer from it.
C4_MalformedLeavesNoSession ==
  \A s \in Sid :
    (role[s] = "whip" /\ ~WellFormed(offer[s]) /\ pc[s] = "panicked") =>
      /\ ~remote[s]
      /\ ~SessionExists(s)
      /\ s \notin consumers

\* The packets of the WriteRTP calls lo..hi that reached consumer s.
Reached(s, lo, hi) ==
  LET sel == SelectSeq(SubSeq(written, lo, hi), LAMBDA w : s \notin w.failed)
  IN [i \in 1..Len(sel) |-> sel[i].pkt]

\* The packets of the WriteRTP calls lo..hi.
Wrote(lo, hi) ==
  LET sub == SubSeq(written, lo, hi) IN [i \in 1..Len(sub) |-> sub[i].pkt]

\* The last WriteRTP call made while s was registered.
RegEnd(s) == IF deregAt[s] = -1 THEN Len(written) ELSE deregAt[s]

\* C5: no packet delivered to a subscriber was written to the relay track
\* before that subscriber registered.
C5_NoReplay ==
  \A s \in Sid : \A i \in 1..Len(delivered[s]) :
    ~ \E j \in 1..Len(written) :
        j <= regAt[s] /\ written[j].pkt = delivered[s][i]

\* A subscriber that registered after a packet was written has received a
\* later packet.
C5_Witness ==
  \E s \in Sid : regAt[s] >= 1 /\ Len(delivered[s]) >= 1

\* The packets the read loop of publisher p received, in order.
ReadSeq(p) == SelectSeq([i \in 1..nread |-> i], LAMBDA x : readBy[x] = p)

RECURSIVE IsSubseq(_, _)
\* a is a subsequence of b.
IsSubseq(a, b) ==
  IF a = <<>> THEN TRUE
  ELSE IF b = <<>> THEN FALSE
  ELSE IF Head(a) = Head(b) THEN IsSubseq(Tail(a), Tail(b))
  ELSE IsSubseq(a, Tail(b))

\* C6: for every subscriber and every publisher, the packets of that
\* publisher delivered to the subscriber are a subsequence, in the same
\* order, of what the publisher's read loop received.
C6_OrderPreserved ==
  \A s \in Sid : \A p \in Sid :
    IsSubseq(SelectSeq(delivered[s], LAMBDA x : readBy[x] = p), ReadSeq(p))

\* Two subscribers registered at the same time have each received two
\* packets or more.
C6_Witness ==
  \E a, b \in consumers :
    a # b /\ Len(delivered[a]) >= 2 /\ Len(delivered[b]) >= 2

PublisherFailed(p) ==
  role[p] = "whip" /\ conn[p] = "closed" /\ rtpLoop[p] # "off"

\* C8: once a publisher's connectivity failed mid-stream, a step that is
\* neither a teardown of subscriber s nor a WriteRTP call leaves s
\* registered and the process, hence its connection, up.
C8_SubscribersSurviveFailover ==
  [][\A p \in Sid, s \in Sid :
       (/\ PublisherFailed(p)
        /\ s \in consumers
        /\ conn'[s] = conn[s]
        /\ written' = written) =>
         (alive' /\ s \in consumers')]_vars

\* C11: a session whose connectivity state went to "failed" is torn down:
\* its connection is closed, it is no consumer of the relay track and it
\* forwards no packets into it any more.
C11_FailedIsTornDown ==
  \A s \in Sid :
    ice[s] \in {"failed", "closed"} =>
      /\ conn[s] = "closed"
      /\ s \notin consumers
      /\ s \notin Forwarding

\* A subscriber that was registered and a publisher that was streaming have
\* both failed.
C11_Witness ==
  \E s, p \in Sid :
    /\ role[s] = "whep" /\ ice[s] = "failed" /\ deregAt[s] # -1
    /\ role[p] = "whip" /\ ice[p] = "failed" /\ rtpLoop[p] # "off"

\* The handler of s has returned or panicked: its signaling exchange is over.
Finished(s) == pc[s] \in {"done", "panicked"}

\* C12: a session calls SetRemoteDescription and SetLocalDescription once
\* at most, and once its handler has returned or failed, no step sets a
\* description of that session again or restarts its negotiation.
C12_SingleShot ==
  /\ [](\A s \in Sid : calls[s].setRemote <= 1 /\ calls[s].setLocal <= 1)
  /\ [][\A s \in Sid :
          Finished(s) =>
            /\ pc'[s] = pc[s]
            /\ calls'[s].setRemote = calls[s].setRemote
            /\ calls'[s].setLocal = calls[s].setLocal
            /\ remote'[s] = remote[s]
            /\ local'[s] = local[s]
            /\ resp'[s] = resp[s]]_vars

\* One negotiation was answered after one call of each, another failed
\* after its one SetRemoteDescription, and a later request was served.
C12_Witness ==
  \E s, f, n \in Sid :
    /\ pc[s] = "done" /\ calls[s].setRemote = 1 /\ calls[s].setLocal = 1
    /\ pc[f] = "panicked" /\ calls[f].setRemote = 1 /\ calls[f].setLocal = 0
    /\ n > f /\ n > s /\ role[n] # ""

\* C13: the resources of a sink are released once at most, and a Close
\* called on a closed sink returns success and leaves the sink as it was.
C13_CloseIdempotent ==
  /\ [](sinkReleased <= 1)
  /\ []((~sinkOpen /\ sinkLast = "Close") => sinkRes = "ok")
  /\ [][(~sinkOpen /\ sinkLast' = "Close" /\ sinkOps' # sinkOps) =>
          /\ sinkRes' = "ok"
          /\ sinkOpen' = sinkOpen
          /\ sinkData' = sinkData
          /\ sinkReleased' = sinkReleased]_vars

\* A sink that accepted a packet was closed, a write to it was rejected and
\* it was closed again with success.
C13_Witness ==
  /\ ~sinkOpen
  /\ sinkData # <<>>
  /\ sinkLast = "Close"
  /\ sinkRes = "ok"
  /\ sinkReleased = 1
  /\ sinkOps >= 4

\* The publisher whose loop made the WriteRTP call w.
WriterOf(w) == readBy[w.pkt]

\* C14: after a WriteRTP call whose delivery to one consumer failed, the
\* packet has reached the other consumers of the call, and each of them that
\* did not leave by its own teardown is still registered on a running relay,
\* so that the later packets reach it.
C14_FanOutIsolated ==
  \A j \in 1..Len(written) :
    written[j].failed # {} =>
      \A c \in written[j].to \ written[j].failed :
        /\ \E i \in 1..Len(delivered[c]) : delivered[c][i] = written[j].pkt
        /\ deregAt[c] = -1 => (alive /\ c \in consumers)

\* C15: after a WriteRTP call of a publisher's loop failed, the process is
\* up and that loop has gone on to read the next packet.
C15_SingleFailureNonFatal ==
  \A j \in 1..Len(written) :
    written[j].failed # {} =>
      /\ alive
      /\ pkt[WriterOf(written[j])] # written[j].pkt
      /\ rtpLoop[WriterOf(written[j])] \in {"read", "write"}

\* A step of the teardown of subscriber s: its connectivity fails and the
\* callback closes it, its ICE agent reports "closed", or its drain
\* goroutine returns.
TeardownStep(s) ==
  /\ role[s] = "whep"
  /\ \/ OnICEConnectionStateChange(s, "failed")
     \/ OnICEConnectionStateChange(s, "closed")
     \/ SenderReadError(s)

\* A teardown step of s leaves the process up and, for every other session,
\* its registration, its delivered packets and its read loop as they were.
TeardownFrame ==
  \A s \in Sid :
    TeardownStep(s) =>
      /\ alive'
      /\ \A t \in Sid \ {s} :
           /\ (t \in consumers') = (t \in consumers)
           /\ delivered'[t] = delivered[t]
           /\ rtpLoop'[t] = rtpLoop[t]
           /\ rtcpLoop'[t] = rtcpLoop[t]
           /\ pkt'[t] = pkt[t]

\* The WriteRTP calls made after subscriber s left the track and while
\* subscriber t was registered.
AfterTeardown(s, t) ==
  {j \in 1..Len(written) :
     j > deregAt[s] /\ j > regAt[t] /\ j <= RegEnd(t)}

C19_CloseOnlyOnFailed ==
  /\ [][\A s \in Sid :
          calls'[s].close # calls[s].close =>
            (ice[s] # "failed" /\ ice'[s] = "failed")]_vars
  /\ [](\A s \in Sid :
          /\ ice[s] \notin {"failed", "closed"} =>
               (conn[s] # "closed" /\ calls[s].close = 0)
          /\ calls[s].close <= 1)

\* One session is disconnected and still open, never closed; another failed
\* and was closed once.
C19_Witness ==
  \E s, t \in Sid :
    /\ ice[s] = "disconnected" /\ conn[s] = "open" /\ calls[s].close = 0
    /\ ice[t] = "failed" /\ conn[t] = "closed" /\ calls[t].close = 1

\* C20: a response with status 201 belongs to a request whose
\* SetRemoteDescription, CreateAnswer and SetLocalDescription all succeeded,
\* each called once; the status is written at most once per request; a
\* request that panicked has written nothing.
C20_CreatedOnlyOnSuccess ==
  \A s \in Sid :
    /\ resp[s].status = StatusCreated =>
         /\ remote[s] /\ answer[s] /\ local[s].set
         /\ calls[s].setRemote = 1 /\ calls[s].setLocal = 1
         /\ calls[s].writeHeader = 1
    /\ calls[s].writeHeader <= 1
    /\ calls[s].writeHeader = 1 => resp[s].status = StatusCreated
    /\ pc[s] = "panicked" => (resp[s] = NoResp /\ calls[s].writeHeader = 0)

\* One request has written 201 after three successful steps; another
\* panicked in negotiation and wrote nothing.
C20_Witness ==
  \E s, t \in Sid :
    /\ resp[s].status = StatusCreated /\ calls[s].writeHeader = 1
    /\ pc[t] = "panicked" /\ resp[t] = NoResp

\* A background task of session s is running: the publisher's ReadRTP loop
\* or ReadRTCP goroutine, or the subscriber's rtpSender.Read goroutine.
Running(s) ==
  /\ alive
  /\ \/ rtpLoop[s] \in {"read", "write"}
     \/ rtcpLoop[s] = "running"

\* C17: once the connection of a session is closed, every background task of
\* the session that is running eventually has ended: none stays blocked on
\* the closed connection.
C17_TasksExitAfterClose ==
  \A s \in Sid : (conn[s] = "closed" /\ Running(s)) ~> ~Running(s)

\* A subscriber's connection failed and its goroutine returned on the read
\* error; a publisher's connection failed after its loops had started, and
\* they have ended.
C17_Witness ==
  \E s, t \in Sid :
    /\ role[s] = "whep" /\ conn[s] = "closed" /\ rtcpLoop[s] = "exited"
    /\ role[t] = "whip" /\ conn[t] = "closed" /\ rtpLoop[t] # "off"
    /\ ~Running(s) /\ ~Running(t)

\* C18, as claimed: gathering being fair, every negotiation whose remote and
\* local descriptions are set eventually has sent its 201 response; and no
\* negotiation whose gathering is not complete has written any part of a
\* response.
C18_NegotiationAnswers ==
  /\ \A s \in Sid :
       (remote[s] /\ local[s].set) ~>
         (resp[s].sent /\ resp[s].status = StatusCreated)
  /\ [](\A s \in Sid : gather[s] # "complete" => resp[s] = NoResp)

====
